---- MODULE Spec2Model ----
(***************************************************************************)
(* Model of milk/supervised/tree.py: the greedy decision-tree builder      *)
(* (build_tree and its nested recursive), the split search (_split), the   *)
(* inference walk (apply_tree) and tree_model.apply.                       *)
(*                                                                         *)
(* Python's recursion is modelled by an explicit stack of pending calls of *)
(* recursive; the left child is evaluated before the right one, as Python  *)
(* evaluates the keyword arguments of Node(...) left to right.  Column     *)
(* indices are 0-based as in the source; rows are numbered 1..N.  Floats   *)
(* produced by labels.sum()/N are kept as exact fractions <<num, den>>.    *)
(***************************************************************************)
EXTENDS Integers, Sequences, FiniteSets

\* ---------------------------------------------------------------- bounds
MaxN == 3          \* largest number of training rows
MaxW == 2          \* per-sample weights are drawn from 1..MaxW

\* The feature matrix has one column per entry of Levels; column c holds
\* values 0 .. Levels[c+1]-1 (column 0 has three levels, so that a column
\* can offer two thresholds; column 1 is binary).
Levels == <<3, 2>>
NumFeat == Len(Levels)

\* default of build_tree's min_split parameter
DefaultMinSplit == 4

\* Python's None and an optional value
None == <<>>
Some(x) == <<x>>

VARIABLES
    features,      \* N x F matrix: sequence of rows, each a function 0..F-1 -> value
    labels,        \* label vector (0/1)
    weights,       \* None or Some(weight vector)
    criterion,     \* name of the caller-supplied criterion
    min_split,     \* build_tree parameter
    subsample,     \* None or Some(k)
    legacyMask,    \* numpy build: TRUE = a short boolean mask indexes a prefix,
                   \* FALSE = a mask of the wrong length raises IndexError
    pc,            \* "start" | "build" | "done" | "error"
    err,           \* exception that ended build_tree ("" if none)
    stack,         \* pending calls of recursive: [rows, path]
    tree,          \* path -> Leaf / Node record (the structure being returned)
    subsets,       \* path -> rows of the subset the node at path was built from
    ncalls,        \* calls of recursive begun so far
    nsearch,       \* calls of _split begun so far
    lastSplit,     \* None or Some(record of the most recent _split call)
    applied        \* None or Some(record of the most recent tree_model.apply)

vars == <<features, labels, weights, criterion, min_split, subsample,
          legacyMask, pc, err, stack, tree, subsets,
          ncalls, nsearch, lastSplit, applied>>

Cols == 0 .. (NumFeat - 1)

\* ------------------------------------------------------------ sequences
RECURSIVE SumSeq(_)
SumSeq(s) == IF s = <<>> THEN 0 ELSE Head(s) + SumSeq(Tail(s))

\* the feature values and the feature rows the inputs are drawn from
Values == {v \in 0 .. SumSeq(Levels) : \E k \in 1 .. Len(Levels) : v < Levels[k]}
Rows == {r \in [Cols -> Values] : \A c \in Cols : r[c] < Levels[c + 1]}

RECURSIVE DotSeq(_, _)
DotSeq(a, b) == IF a = <<>> THEN 0 ELSE Head(a) * Head(b) + DotSeq(Tail(a), Tail(b))

SetMin(S) == CHOOSE x \in S : \A y \in S : x <= y

\* sorted(set(...)) of line 63
RECURSIVE sorted(_)
sorted(S) == IF S = {} THEN <<>> ELSE <<SetMin(S)>> \o sorted(S \ {SetMin(S)})

\* numpy boolean-mask indexing arr[mask] for a mask no longer than arr:
\* the entries of arr at the positions where mask is true
RECURSIVE BoolIndexFrom(_, _, _)
BoolIndexFrom(arr, mask, j) ==
    IF j > Len(mask) THEN <<>>
    ELSE (IF mask[j] THEN <<arr[j]>> ELSE <<>>) \o BoolIndexFrom(arr, mask, j + 1)

BoolIndex(arr, mask) == BoolIndexFrom(arr, mask, 1)

Not(mask) == [j \in 1 .. Len(mask) |-> ~mask[j]]

\* features[rows], labels[rows]: the arrays a call of recursive receives
SubLabels(rows) == [j \in 1 .. Len(rows) |-> labels[rows[j]]]
Column(rows, c) == [j \in 1 .. Len(rows) |-> features[rows[j]][c]]
Range(s) == {s[j] : j \in 1 .. Len(s)}

\* ------------------------------------------------------------ criteria
\* Weight of each entry of a label array as the criterion sees it: the weight
\* array when the criterion is called with four arguments, ones with two.
OnesLike(l) == [j \in 1 .. Len(l) |-> 1]
EffW(l, w) == IF w = None THEN OnesLike(l) ELSE w[1]

\* weighted number of entries of l that carry label v
Mass(l, w, v) == DotSeq([j \in 1 .. Len(l) |-> IF l[j] = v THEN 1 ELSE 0], EffW(l, w))

Minority(l, w) == IF Mass(l, w, 0) < Mass(l, w, 1) THEN Mass(l, w, 0) ELSE Mass(l, w, 1)

\* The criterion is a parameter of build_tree (higher is better).  Two
\* stand-ins are supplied by the caller here:
\*   "purity"   minus the weighted number of minority-label samples on the
\*              two sides (0 for a perfect split, negative otherwise)
\*   "leftmass" the weighted size of the left side (always positive)
Criteria == {"purity", "leftmass"}

CallCriterion(c, l0, l1, w0, w1) ==
    IF c = "purity" THEN 0 - (Minority(l0, w0) + Minority(l1, w1))
    ELSE SumSeq(EffW(l0, w0))

\* -------------------------------------------------------------- _split
\* R.sample(xrange(F), k): the k-long sequences of distinct column indices
Sample(k) == {s \in [1 .. k -> Cols] : \A a, b \in 1 .. k : a # b => s[a] # s[b]}

\* column of the full matrix that sits at position i of features[:, samples]
SampledColumn(draw, i) == IF subsample # None THEN draw[i + 1] ELSE i

\* number of columns searched: f
SearchWidth == IF subsample # None THEN subsample[1] ELSE NumFeat

\* variant: the smallest value is not dropped (domain_i instead of domain_i[1:])
ThresholdsAll(col) == sorted(Range(col))

\* domain_i[1:] of line 64: the distinct values in ascending order, the smallest dropped
Thresholds(col) == Tail(sorted(Range(col)))

\* the (i, d) pairs in the order the two nested loops visit them
RECURSIVE CandidatesFrom(_, _, _)
CandidatesFrom(rows, draw, i) ==
    IF i >= SearchWidth THEN <<>>
    ELSE LET th == Thresholds(Column(rows, SampledColumn(draw, i)))
         IN  [k \in 1 .. Len(th) |-> [pos |-> i, d |-> th[k]]] \o CandidatesFrom(rows, draw, i + 1)

Candidates(rows, draw) == CandidatesFrom(rows, draw, 0)

\* cur_split = (features[:, i] < d)
CurSplit(rows, draw, cand) ==
    [j \in 1 .. Len(rows) |-> features[rows[j]][SampledColumn(draw, cand.pos)] < cand.d]

\* weights[cur_split]: weights is the vector build_tree was called with
WeightArg(mask) == IF weights = None THEN None ELSE Some(BoolIndex(weights[1], mask))

\* one evaluation of the loop body up to the criterion call (lines 65-69)
Evaluate(rows, draw, cand) ==
    LET mask == CurSplit(rows, draw, cand)
        l0 == BoolIndex(SubLabels(rows), mask)
        l1 == BoolIndex(SubLabels(rows), Not(mask))
        w0 == WeightArg(mask)
        w1 == WeightArg(Not(mask))
    IN  [pos |-> cand.pos, d |-> cand.d, mask |-> mask, l0 |-> l0, l1 |-> l1,
         w0 |-> w0, w1 |-> w1, value |-> CallCriterion(criterion, l0, l1, w0, w1)]

\* a boolean mask of the wrong length is an IndexError on a strict numpy
MaskRaises(rows) == weights # None /\ ~legacyMask /\ Len(rows) # Len(weights[1])

\* variant: value >= best_val, a later equal score replaces the earlier one
BetterOrEqual(value, best_val) == value >= best_val

\* value > best_val
Better(value, best_val) == value > best_val

\* variant: the position in the sampled sub-matrix is returned
ReturnedPosition(draw, i) == i

\* ti of lines 72-75
ReturnedIndex(draw, i) == IF subsample # None THEN draw[i + 1] ELSE i

\* lines 60-77: the scan that keeps the best pair seen so far
RECURSIVE Scan(_, _, _, _, _)
Scan(calls, draw, k, best, best_val) ==
    IF k > Len(calls) THEN best
    ELSE IF Better(calls[k].value, best_val)
         THEN Scan(calls, draw, k + 1, <<ReturnedIndex(draw, calls[k].pos), calls[k].d>>, calls[k].value)
         ELSE Scan(calls, draw, k + 1, best, best_val)

\* _split(features[rows], labels[rows], weights, criterion, subsample, R),
\* where draw is what R.sample returns (unused without subsampling)
split(rows, draw) ==
    IF subsample # None /\ subsample[1] > NumFeat
    THEN [raised |-> "ValueError", samples |-> None, calls |-> <<>>, best |-> None]
    ELSE LET cands == Candidates(rows, draw)
             smp == IF subsample # None THEN Some(draw) ELSE None
         IN  IF cands # <<>> /\ MaskRaises(rows)
             THEN [raised |-> "IndexError", samples |-> smp, calls |-> <<>>, best |-> None]
             ELSE LET calls == [k \in 1 .. Len(cands) |-> Evaluate(rows, draw, cands[k])]
                  IN  [raised |-> "", samples |-> smp, calls |-> calls,
                       best |-> Scan(calls, draw, 1, None, -1)]

\* ---------------------------------------------------------- build_tree
\* variant: the label sum is not divided by N
LeafOfSum(rows) == [kind |-> "Leaf", v |-> <<SumSeq(SubLabels(rows)), 1>>, w |-> Len(rows)]

\* Leaf(labels.sum()/N, N)
Leaf(rows) == [kind |-> "Leaf", v |-> <<SumSeq(SubLabels(rows)), Len(rows)>>, w |-> Len(rows)]

Node(i, thresh) == [kind |-> "Node", featid |-> i, featval |-> thresh]

\* split = features[:, i] < thresh
NodeMask(rows, i, thresh) == [j \in 1 .. Len(rows) |-> features[rows[j]][i] < thresh]

\* one call of recursive on the subset rows, up to its two recursive calls
recursive(rows, draw) ==
    IF Len(rows) < min_split
    THEN [kind |-> "Leaf", searched |-> FALSE]
    ELSE LET S == split(rows, draw)
         IN  IF S.raised # "" THEN [kind |-> "Raise", searched |-> TRUE, S |-> S]
             ELSE IF S.best = None THEN [kind |-> "Leaf", searched |-> TRUE, S |-> S]
             ELSE LET m == NodeMask(rows, S.best[1], S.best[2])
                  IN  [kind |-> "Node", searched |-> TRUE, S |-> S,
                       left |-> BoolIndex(rows, m), right |-> BoolIndex(rows, Not(m))]

\* the draws R.sample can return to a call of recursive on N rows
Draws(N) ==
    IF N < min_split \/ subsample = None \/ subsample[1] > NumFeat THEN {<<>>}
    ELSE Sample(subsample[1])

Put(f, p, x) == [q \in (DOMAIN f) \cup {p} |-> IF q = p THEN x ELSE f[q]]

\* ---------------------------------------------------------- apply_tree
\* variant: the walk goes left on <= while the builder partitions with <
RECURSIVE WalkLE(_, _, _)
WalkLE(t, feats, path) ==
    IF t[path].kind = "Leaf" THEN path
    ELSE IF feats[t[path].featid] <= t[path].featval
         THEN WalkLE(t, feats, Append(path, 0))
         ELSE WalkLE(t, feats, Append(path, 1))

\* path of the leaf the walk of apply_tree ends at (0 = left, 1 = right)
RECURSIVE Walk(_, _, _)
Walk(t, feats, path) ==
    IF t[path].kind = "Leaf" THEN path
    ELSE IF feats[t[path].featid] < t[path].featval
         THEN Walk(t, feats, Append(path, 0))
         ELSE Walk(t, feats, Append(path, 1))

apply_tree(t, feats) == t[Walk(t, feats, <<>>)].v

\* variant: value >= .5
AtLeastHalf(value) == 2 * value[1] >= value[2]

\* value > .5 for the fraction value
AboveHalf(value) == 2 * value[1] > value[2]

\* ---------------------------------------------------------------- state
RowIndices(n) == [j \in 1 .. n |-> j]

\* the state before build_tree is called on one of the inputs of the family
\* (rowset: the feature rows, wopts: the weights arguments for n rows,
\*  sopts: the subsample arguments, legacy: the numpy builds)
InitWith(rowset, wopts, sopts, legacy) ==
    /\ \E n \in 1 .. MaxN :
          /\ features \in [1 .. n -> rowset]
          /\ \E m \in {n, n - 1} \ {0} : labels \in [1 .. m -> {0, 1}]
          /\ weights \in wopts[n]
    /\ criterion \in Criteria
    /\ min_split \in {1, 2, DefaultMinSplit}
    /\ subsample \in sopts
    /\ legacyMask \in legacy
    /\ pc = "start"
    /\ err = ""
    /\ stack = <<>>
    /\ tree = <<>>
    /\ subsets = <<>>
    /\ ncalls = 0
    /\ nsearch = 0
    /\ lastSplit = None
    /\ applied = None

NoWeights == [n \in 1 .. MaxN |-> {None}]
SomeWeights == [n \in 1 .. MaxN |-> {Some(w) : w \in [1 .. n -> 1 .. MaxW]}]
BinaryRows == [Cols -> {0, 1}]

\* build_tree(features, labels, criterion, min_split)
Init == InitWith(Rows, NoWeights, {None}, {FALSE})

\* build_tree(features, labels, criterion, min_split, subsample, R)
InitSub == InitWith(BinaryRows, NoWeights, {Some(k) : k \in 0 .. (NumFeat + 1)}, {FALSE})

\* build_tree(features, labels, criterion, min_split, weights=weights)
InitW == InitWith(BinaryRows, SomeWeights, {None}, BOOLEAN)

inputs == <<features, labels, weights, criterion, min_split, subsample, legacyMask>>

\* build_tree up to the first call of recursive (lines 123-131, 145)
Validate ==
    /\ pc = "start"
    /\ IF Len(features) # Len(labels)
       THEN pc' = "error" /\ err' = "AssertionError" /\ stack' = <<>>
       ELSE IF subsample # None /\ subsample[1] <= 0
       THEN pc' = "error" /\ err' = "ValueError" /\ stack' = <<>>
       ELSE /\ pc' = "build"
            /\ err' = ""
            /\ stack' = <<[rows |-> RowIndices(Len(labels)), path |-> <<>>]>>
    /\ UNCHANGED <<inputs, tree, subsets, ncalls, nsearch, lastSplit, applied>>

\* the next pending call of recursive (lines 132-144); when the last one
\* returns, build_tree returns the tree
Step ==
    /\ pc = "build"
    /\ stack # <<>>
    /\ LET fr == Head(stack)
       IN  \E draw \in Draws(Len(fr.rows)) :
             LET r == recursive(fr.rows, draw)
             IN  /\ ncalls' = ncalls + 1
                 /\ nsearch' = IF r.searched THEN nsearch + 1 ELSE nsearch
                 /\ lastSplit' = IF r.searched THEN Some([rows |-> fr.rows, path |-> fr.path, out |-> r]) ELSE lastSplit
                 /\ IF r.kind = "Raise"
                    THEN /\ pc' = "error"
                         /\ err' = r.S.raised
                         /\ stack' = <<>>
                         /\ tree' = <<>>
                         /\ subsets' = <<>>
                    ELSE IF r.kind = "Leaf"
                    THEN /\ stack' = Tail(stack)
                         /\ pc' = IF Tail(stack) = <<>> THEN "done" ELSE "build"
                         /\ err' = ""
                         /\ tree' = Put(tree, fr.path, Leaf(fr.rows))
                         /\ subsets' = Put(subsets, fr.path, fr.rows)
                    ELSE /\ stack' = <<[rows |-> r.left, path |-> Append(fr.path, 0)],
                                       [rows |-> r.right, path |-> Append(fr.path, 1)]>> \o Tail(stack)
                         /\ pc' = "build"
                         /\ err' = ""
                         /\ tree' = Put(tree, fr.path, Node(r.S.best[1], r.S.best[2]))
                         /\ subsets' = Put(subsets, fr.path, fr.rows)
    /\ UNCHANGED <<inputs, applied>>

\* tree_model(tree, return_label).apply(feats) (lines 203-207).  apply reads
\* the tree and changes nothing, and applied keeps the latest call only, so a
\* second call reaches no state the first one does not: one call is taken.
Apply ==
    /\ pc = "done"
    /\ applied = None
    /\ \E feats \in Rows, return_label \in BOOLEAN :
          LET value == apply_tree(tree, feats)
          IN  applied' = Some([feats |-> feats, return_label |-> return_label,
                               leaf |-> Walk(tree, feats, <<>>),
                               out |-> IF return_label THEN <<"label", AboveHalf(value)>>
                                       ELSE <<"value", value>>])
    /\ UNCHANGED <<inputs, pc, err, stack, tree, subsets, ncalls, nsearch, lastSplit>>

Next == Validate \/ Step \/ Apply

Spec == Init /\ [][Next]_vars
SpecSub == InitSub /\ [][Next]_vars
SpecW == InitW /\ [][Next]_vars

\* ------------------------------------------------------------ properties
N == Len(features)
TrainingRows == 1 .. N
Leaves == {p \in DOMAIN tree : tree[p].kind = "Leaf"}
LS == lastSplit[1]
Searched == lastSplit # None /\ LS.out.S.raised = ""
SetMax(S) == CHOOSE x \in S : \A y \in S : y <= x

\* rows of the subset whose value in column c is below / not below d
Below(rows, c, d) == SelectSeq(rows, LAMBDA r : features[r][c] < d)
NotBelow(rows, c, d) == SelectSeq(rows, LAMBDA r : ~(features[r][c] < d))

\* column of the full matrix a recorded criterion call looked at
CallColumn(S, call) == IF S.samples = None THEN call.pos ELSE S.samples[1][call.pos + 1]

\* C1: in a tree returned by build_tree without weights, every training row
\* walks to exactly one leaf, that leaf is the one built from the subset that
\* holds the row, and the leaf's w is the number of training rows walking to
\* it (so the leaf weights sum to N).
C1_TrainingRowsReachTheirLeaf ==
    (pc = "done" /\ weights = None) =>
        /\ \A r \in TrainingRows :
              LET p == Walk(tree, features[r], <<>>)
              IN  /\ p \in Leaves
                  /\ {q \in Leaves : r \in Range(subsets[q])} = {p}
                  /\ tree[p].w = Cardinality({q \in TrainingRows : Walk(tree, features[q], <<>>) = p})
        /\ \A p \in Leaves : tree[p].w = Len(subsets[p])
        /\ Cardinality(UNION {Range(subsets[p]) : p \in Leaves}) = N

C1_Witness ==
    /\ pc = "done"
    /\ weights = None
    /\ Cardinality(Leaves) = 3
    /\ \E p \in Leaves : tree[p].w = 1 /\ Len(p) = 2

\* C2 (as stated): with weights supplied, every leaf holds the weighted mean
\* of its subset's labels and the weighted count of its subset.
C2_LeafIsWeightedMean ==
    weights # None =>
        \A p \in Leaves :
            LET w == [j \in 1 .. Len(subsets[p]) |-> weights[1][subsets[p][j]]]
                l == SubLabels(subsets[p])
            IN  /\ tree[p].v[1] * SumSeq(w) = DotSeq(l, w) * tree[p].v[2]
                /\ tree[p].w = SumSeq(w)

\* C3 (as stated): _split returns None exactly when every candidate feature
\* has a single distinct value in the subset.
C3_NoneIffNoCandidate ==
    Searched =>
        (LS.out.S.best = None <=>
            \A i \in 0 .. (SearchWidth - 1) :
                Cardinality(Range(Column(LS.rows, IF LS.out.S.samples = None THEN i
                                                  ELSE LS.out.S.samples[1][i + 1]))) <= 1)

\* C4: every split _split chooses cuts the subset into two non-empty parts,
\* the rows below the threshold and the rest, so each recursive call gets a
\* strictly smaller subset and at most 2N-1 calls of recursive are made.
C4_SplitsShrink ==
    /\ (lastSplit # None /\ LS.out.kind = "Node") =>
          /\ LS.out.left # <<>>
          /\ LS.out.right # <<>>
          /\ Len(LS.out.left) < Len(LS.rows)
          /\ Len(LS.out.right) < Len(LS.rows)
          /\ LS.out.left = Below(LS.rows, LS.out.S.best[1], LS.out.S.best[2])
          /\ LS.out.right = NotBelow(LS.rows, LS.out.S.best[1], LS.out.S.best[2])
    /\ \A k \in 1 .. Len(stack) : stack[k].rows # <<>> /\ Len(stack[k].path) < N
    /\ ncalls + Len(stack) <= 2 * N - 1 \/ pc \in {"start", "error"}

C4_Witness ==
    /\ pc = "done"
    /\ ncalls = 2 * MaxN - 1
    /\ LS.out.kind = "Node"
    /\ Len(LS.rows) < N

\* C5 (as stated): build_tree fails only before the first call of recursive.
C5_FailsOnlyBeforeRecursion == pc = "error" => ncalls = 0

\* C6: when the whole input has fewer rows than min_split, build_tree returns
\* a single Leaf without any split search, with value mean(labels) and weight N.
C6_SmallInputIsOneLeaf ==
    (pc = "done" /\ N < min_split) =>
        /\ DOMAIN tree = {<<>>}
        /\ tree[<<>>].kind = "Leaf"
        /\ nsearch = 0
        /\ tree[<<>>].v[2] # 0
        /\ tree[<<>>].v[1] * N = SumSeq(labels) * tree[<<>>].v[2]
        /\ tree[<<>>].w = N

C6_Witness ==
    /\ pc = "done"
    /\ N = 3
    /\ min_split = DefaultMinSplit
    /\ SumSeq(labels) = 1
    /\ Cardinality(Range(Column(RowIndices(N), 0))) = 3

\* C7: tree_model.apply walks from the root, left exactly when
\* feats[featid] < featval, until a leaf; with return_label it returns whether
\* the leaf value is strictly above 0.5 (exactly 0.5 gives false), without it
\* the raw leaf value.
C7_ApplyWalksAndThresholds ==
    applied # None =>
        LET a == applied[1]
            p == a.leaf
        IN  /\ p \in Leaves
            /\ \A k \in 0 .. (Len(p) - 1) :
                  LET q == SubSeq(p, 1, k)
                  IN  /\ tree[q].kind = "Node"
                      /\ (p[k + 1] = 0 <=> a.feats[tree[q].featid] < tree[q].featval)
                      /\ (p[k + 1] = 1 <=> a.feats[tree[q].featid] >= tree[q].featval)
            /\ IF a.return_label
               THEN /\ a.out[1] = "label"
                    /\ (a.out[2] <=> 2 * tree[p].v[1] > tree[p].v[2])
                    /\ (2 * tree[p].v[1] = tree[p].v[2] => a.out[2] = FALSE)
               ELSE /\ a.out[1] = "value"
                    /\ a.out[2] = tree[p].v

C7_Witness ==
    /\ applied # None
    /\ applied[1].return_label
    /\ Len(applied[1].leaf) >= 1
    /\ 2 * tree[applied[1].leaf].v[1] = tree[applied[1].leaf].v[2]
    /\ applied[1].out = <<"label", FALSE>>

\* C8: the criterion calls are made feature by feature and, within a feature,
\* for its distinct values in ascending order without the smallest; a pair
\* returned by _split is the first call in that order whose score is the
\* maximum over all calls.
C8_FirstMaximumWins ==
    Searched =>
        LET S == LS.out.S
            calls == S.calls
            idx == 1 .. Len(calls)
        IN  /\ \A a, b \in idx :
                  a < b => \/ calls[a].pos < calls[b].pos
                           \/ calls[a].pos = calls[b].pos /\ calls[a].d < calls[b].d
            /\ {<<calls[k].pos, calls[k].d>> : k \in idx} =
                  {<<i, d>> \in (0 .. (SearchWidth - 1)) \X Values :
                      LET col == Range(Column(LS.rows, CallColumn(S, [pos |-> i])))
                      IN  d \in col /\ \E e \in col : e < d}
            /\ S.best # None =>
                  LET top == SetMax({calls[k].value : k \in idx})
                      first == CHOOSE k \in idx :
                                  /\ calls[k].value = top
                                  /\ \A j \in idx : j < k => calls[j].value < top
                  IN  S.best = <<CallColumn(S, calls[first]), calls[first].d>>

C8_Witness ==
    /\ Searched
    /\ LS.out.S.best # None
    /\ LET calls == LS.out.S.calls
       IN  /\ Len(calls) >= 3
           /\ calls[1].pos = calls[2].pos
           /\ \E a, b \in 1 .. Len(calls) :
                 /\ a < b
                 /\ calls[a].value = calls[b].value
                 /\ \A k \in 1 .. Len(calls) : calls[k].value <= calls[a].value
                 /\ LS.out.S.best = <<calls[a].pos, calls[a].d>>

\* C9 (as stated): with weights supplied, every criterion call, at the root
\* and below it, receives for each side exactly the weights of the training
\* rows of the current subset that lie on that side.
C9_WeightsFollowTheSubset ==
    (Searched /\ weights # None) =>
        \A k \in 1 .. Len(LS.out.S.calls) :
            LET call == LS.out.S.calls[k]
                c == CallColumn(LS.out.S, call)
                left == Below(LS.rows, c, call.d)
                right == NotBelow(LS.rows, c, call.d)
            IN  /\ call.w0 = Some([j \in 1 .. Len(left) |-> weights[1][left[j]]])
                /\ call.w1 = Some([j \in 1 .. Len(right) |-> weights[1][right[j]]])

\* C10: with subsampling, the feature index _split returns is a column of the
\* full matrix, is one of the indices drawn for the node, and is the column
\* whose values produced the returned threshold and the winning score; the
\* node stores it and the subset is partitioned on it.
C10_ReturnedIndexIsOriginalColumn ==
    (Searched /\ subsample # None /\ LS.out.S.best # None) =>
        LET S == LS.out.S
            i == S.best[1]
            d == S.best[2]
            top == SetMax({S.calls[k].value : k \in 1 .. Len(S.calls)})
        IN  /\ i \in Cols
            /\ i \in Range(S.samples[1])
            /\ d \in Range(Column(LS.rows, i))
            /\ \E k \in 1 .. Len(S.calls) :
                  /\ S.samples[1][S.calls[k].pos + 1] = i
                  /\ S.calls[k].d = d
                  /\ S.calls[k].value = top
                  /\ S.calls[k].l0 = SubLabels(Below(LS.rows, i, d))
                  /\ S.calls[k].l1 = SubLabels(NotBelow(LS.rows, i, d))
            /\ LS.out.kind = "Node"
            /\ LS.out.left = Below(LS.rows, i, d)
            /\ LS.out.right = NotBelow(LS.rows, i, d)
            /\ tree[LS.path].kind = "Node"
            /\ tree[LS.path].featid = i
            /\ tree[LS.path].featval = d

C10_Witness ==
    /\ Searched
    /\ subsample # None
    /\ LS.out.S.best # None
    /\ LS.out.S.samples[1][1] # 0
    /\ LS.out.S.best[1] = LS.out.S.samples[1][1]
    /\ Column(LS.rows, 0) # Column(LS.rows, 1)

====
